---- MODULE Spec2Model ----
(***************************************************************************)
(* Model of donut_bot.py: the auction-house search (ah_command,            *)
(* price_command), the per-conversation result cache (context.chat_data),  *)
(* the page renderer (build_ah_page) and the callback router               *)
(* (button_handler).                                                       *)
(*                                                                         *)
(* Strings are sequences of one-character strings.  A Python dict is a     *)
(* record whose DOMAIN is the set of keys that are present.                *)
(***************************************************************************)
EXTENDS Integers, Sequences, FiniteSets, TLC

VARIABLES
    chat_data,   \* context.chat_data of every conversation: search_id -> entry
    msgs,        \* the paged messages the bot has sent, as they are shown now; each
                 \* also records the build_ah_page call that produced it (search_id,
                 \* page_index) and whether only its own controls were pressed (honest)
    run,         \* the command handler in progress and its local variables
    out,         \* what the last handler sent, edited or raised
    uuids,       \* number of uuid.uuid4() calls made so far
    commands     \* number of command updates handled so far

vars == <<chat_data, msgs, run, out, uuids, commands>>

---------------------------------------------------------------------------
(* Program constants *)

\* ITEMS_PER_PAGE = 10
ITEMS_PER_PAGE == 10

\* "if page > 100: break" in ah_command
PAGE_CAP == 100

---------------------------------------------------------------------------
(* Bounds of the model *)

\* the longest run of filler pages a modelled remote serves
MaxFill == 101

\* command updates handled in one behaviour of the bot specification
MaxCommands == 2

\* the largest page index a hand-crafted callback token names
MaxForgedPage == 3

---------------------------------------------------------------------------
(* Python built-ins used by the program *)

\* dict.get(key, default)
Get(d, k, default) == IF k \in DOMAIN d THEN d[k] ELSE default

Min2(a, b) == IF a < b THEN a ELSE b
Max2(a, b) == IF a > b THEN a ELSE b

\* faulty variant: negative indices are clipped to 0 instead of counted from the end
PySlice_ClipNegative(s, start, end) ==
    LET lo == IF start < 0 THEN 0 ELSE IF start > Len(s) THEN Len(s) ELSE start
        hi == IF end < 0 THEN 0 ELSE IF end > Len(s) THEN Len(s) ELSE end
    IN  IF lo >= hi THEN <<>> ELSE SubSeq(s, lo + 1, hi)

\* seq[start:end] with Python's treatment of negative and oversized indices
PySlice(s, start, end) ==
    LET n  == Len(s)
        lo == IF start < 0 THEN Max2(n + start, 0) ELSE Min2(start, n)
        hi == IF end < 0 THEN Max2(n + end, 0) ELSE Min2(end, n)
    IN  IF lo >= hi THEN <<>> ELSE SubSeq(s, lo + 1, hi)

\* s.startswith(p)
StartsWith(s, p) == Len(p) <= Len(s) /\ SubSeq(s, 1, Len(p)) = p

\* needle in hay (substring test)
Contains(hay, needle) ==
    \E i \in 0..(Len(hay) - Len(needle)) :
        SubSeq(hay, i + 1, i + Len(needle)) = needle

\* s.replace(old, new), old non-empty: leftmost non-overlapping occurrences
RECURSIVE Replace(_, _, _)
Replace(s, old, new) ==
    IF s = <<>> THEN <<>>
    ELSE IF StartsWith(s, old)
         THEN new \o Replace(SubSeq(s, Len(old) + 1, Len(s)), old, new)
         ELSE <<Head(s)>> \o Replace(Tail(s), old, new)

LowerCh(ch) == CASE ch = "A" -> "a" [] ch = "B" -> "b" [] ch = "C" -> "c"
                 [] OTHER -> ch
UpperCh(ch) == CASE ch = "a" -> "A" [] ch = "b" -> "B" [] ch = "c" -> "C"
                 [] ch = "m" -> "M" [] ch = "u" -> "U" [] ch = "n" -> "N"
                 [] ch = "k" -> "K" [] ch = "o" -> "O" [] ch = "w" -> "W"
                 [] OTHER -> ch
IsLetter(ch) == LowerCh(ch) # ch \/ UpperCh(ch) # ch

\* str.lower()
Lower(s) == [i \in 1..Len(s) |-> LowerCh(s[i])]

\* str.title(): a letter is upper-cased after a non-letter, lower-cased after a letter
Title(s) ==
    [i \in 1..Len(s) |->
        IF i = 1 \/ ~IsLetter(s[i - 1]) THEN UpperCh(s[i]) ELSE LowerCh(s[i])]

\* sep.join(words)
RECURSIVE Join(_, _)
Join(sep, words) ==
    IF words = <<>> THEN <<>>
    ELSE IF Len(words) = 1 THEN words[1]
    ELSE words[1] \o sep \o Join(sep, Tail(words))

\* s.split(sep) for a one-character separator
RECURSIVE Split(_, _)
Split(s, sep) ==
    IF \A i \in 1..Len(s) : s[i] # sep THEN <<s>>
    ELSE LET k == CHOOSE i \in 1..Len(s) :
                    s[i] = sep /\ \A j \in 1..(i - 1) : s[j] # sep
         IN  <<SubSeq(s, 1, k - 1)>> \o Split(SubSeq(s, k + 1, Len(s)), sep)

Digits == <<"0", "1", "2", "3", "4", "5", "6", "7", "8", "9">>
IsDigit(ch) == \E d \in 1..10 : Digits[d] = ch
DigitVal(ch) == (CHOOSE d \in 1..10 : Digits[d] = ch) - 1

\* str(n) for an integer n, as the f-string writes it
RECURSIVE NatStr(_)
NatStr(n) == IF n < 10 THEN <<Digits[n + 1]>>
             ELSE NatStr(n \div 10) \o <<Digits[(n % 10) + 1]>>
IntStr(n) == IF n < 0 THEN <<"-">> \o NatStr(0 - n) ELSE NatStr(n)

RECURSIVE DigitsVal(_)
DigitsVal(s) == IF s = <<>> THEN 0
                ELSE 10 * DigitsVal(SubSeq(s, 1, Len(s) - 1)) + DigitVal(s[Len(s)])

\* int(s): an optional sign and at least one digit (anything else: ValueError)
IntBody(s) == IF s # <<>> /\ (s[1] = "-" \/ s[1] = "+") THEN Tail(s) ELSE s
IsIntStr(s) == IntBody(s) # <<>> /\ \A i \in 1..Len(IntBody(s)) : IsDigit(IntBody(s)[i])
ParseInt(s) == IF s[1] = "-" THEN 0 - DigitsVal(IntBody(s)) ELSE DigitsVal(IntBody(s))

---------------------------------------------------------------------------

(* The remote API and make_api_request *)

None == <<>>
Some(x) == <<x>>
EmptyDict == [k \in {} |-> 0]

\* bool(x) of a dict, a list or None
Truthy(x) == DOMAIN x # {}

\* One HTTP exchange: the transport may fail; otherwise a status and a body that
\* parses as JSON or does not.
OkResponse(status, body) == [net |-> "ok", status |-> status, parse |-> "ok", body |-> body]
BadJson(status) == [net |-> "ok", status |-> status, parse |-> "fail", body |-> EmptyDict]
NetFail == [net |-> "fail", status |-> 0, parse |-> "fail", body |-> EmptyDict]

make_api_request(resp) ==
    IF resp.net = "fail" THEN None
    ELSE IF resp.status \in {200, 500}
         THEN IF resp.parse = "fail" THEN None ELSE Some(resp.body)
         ELSE None

\* A remote: the response to GET /auction/list/{page} for every page >= 1
Serve(remote, page) ==
    IF page <= Len(remote.head) THEN remote.head[page]
    ELSE IF page <= Len(remote.head) + remote.fillN THEN remote.fill
    ELSE remote.end

---------------------------------------------------------------------------
(* Formatter *)

MC == <<"m", "i", "n", "e", "c", "r", "a", "f", "t", ":">>
Unknown == <<"U", "n", "k", "n", "o", "w", "n">>

format_item_id(item_id) == Title(Replace(Replace(item_id, MC, <<>>), <<"_">>, <<" ">>))

\* the text of one listing line, field by field
ListingLine(item) ==
    [name   |-> format_item_id(Get(Get(item, "item", EmptyDict), "id", Unknown)),
     seller |-> Get(Get(item, "seller", EmptyDict), "name", Unknown),
     price  |-> Get(item, "price", 0)]

---------------------------------------------------------------------------
(* Search aggregator *)

\* search_term = " ".join(context.args).lower()
SearchTerm(args) == Lower(Join(<<" ">>, args))

\* the filter of one fetched page
MatchesOf(auctions, search_term) ==
    SelectSeq(auctions,
              LAMBDA item :
                  Contains(Lower(format_item_id(
                               Get(Get(item, "item", EmptyDict), "id", <<>>))),
                           search_term))

\* key=lambda x: x.get('price', float('inf')), compared with <
HasPrice(x) == "price" \in DOMAIN x
KeyLess(x, y) == HasPrice(x) /\ (~HasPrice(y) \/ x.price < y.price)

\* faulty variant: an insertion that puts x before the elements of equal price
RECURSIVE InsertSorted_Unstable(_, _)
InsertSorted_Unstable(sortedSeq, x) ==
    IF sortedSeq = <<>> THEN <<x>>
    ELSE LET last == sortedSeq[Len(sortedSeq)]
         IN  IF ~KeyLess(last, x)
             THEN Append(InsertSorted_Unstable(SubSeq(sortedSeq, 1, Len(sortedSeq) - 1), x),
                         last)
             ELSE Append(sortedSeq, x)

\* sorted(items, key=...): stable
RECURSIVE InsertSorted(_, _)
InsertSorted(sortedSeq, x) ==
    IF sortedSeq = <<>> THEN <<x>>
    ELSE LET last == sortedSeq[Len(sortedSeq)]
         IN  IF KeyLess(x, last)
             THEN Append(InsertSorted(SubSeq(sortedSeq, 1, Len(sortedSeq) - 1), x), last)
             ELSE Append(sortedSeq, x)

RECURSIVE SortedByPrice(_)
SortedByPrice(items) ==
    IF items = <<>> THEN <<>>
    ELSE InsertSorted(SortedByPrice(SubSeq(items, 1, Len(items) - 1)), items[Len(items)])

\* faulty variant: the last of the smallest
RECURSIVE MinByPrice_Last(_)
MinByPrice_Last(items) ==
    IF Len(items) = 1 THEN items[1]
    ELSE LET best == MinByPrice_Last(SubSeq(items, 1, Len(items) - 1))
             x    == items[Len(items)]
         IN  IF ~KeyLess(best, x) THEN x ELSE best

\* min(items, key=...): the first of the smallest
RECURSIVE MinByPrice(_)
MinByPrice(items) ==
    IF Len(items) = 1 THEN items[1]
    ELSE LET best == MinByPrice(SubSeq(items, 1, Len(items) - 1))
             x    == items[Len(items)]
         IN  IF KeyLess(x, best) THEN x ELSE best

---------------------------------------------------------------------------
(* Inputs: conversations, listings, remote pages, command arguments *)

Chats == {"c1", "c2"}

Listing(id, seller, price) ==
    [item |-> [id |-> id], seller |-> [name |-> seller], price |-> price]
NoPriceListing(id, seller) == [item |-> [id |-> id], seller |-> [name |-> seller]]

IdAB   == MC \o <<"a", "_", "b">>
IdABup == <<"A", "_", "B">>
IdB    == MC \o <<"b">>
IdC    == <<"c">>

PgA == <<Listing(IdAB, <<"k">>, 5), Listing(IdB, <<"n">>, 1), Listing(IdABup, <<"o">>, 1)>>
PgB == <<NoPriceListing(IdABup, <<"w">>),
         Listing(IdAB, <<"n">>, 1),
         [price |-> 0],
         Listing(IdC, <<"k">>, 0)>>
FillerListing == Listing(<<"a", "_", "B">>, <<"m">>, 3)
PgFill == <<FillerListing>>
PgBig == [i \in 1..23 |-> FillerListing]

Ok200(result) == OkResponse(200, [status |-> 200, result |-> result])
Ok500(result) == OkResponse(500, [status |-> 500, result |-> result])

\* the ways a remote ends its listing
EndResponses ==
    {OkResponse(404, [message |-> "nf"]),
     Ok200(<<>>),
     OkResponse(500, [message |-> "err"]),
     OkResponse(403, [message |-> "no"]),
     BadJson(200),
     NetFail}

Remote(head, fillN, end) ==
    [head |-> head, fillN |-> fillN, fill |-> Ok200(PgFill), end |-> end]

\* remotes of the scan specification: short ones, and long ones around the page cap
ScanHeads == {<<>>, <<Ok200(PgA)>>, <<Ok200(PgB), Ok200(PgA)>>, <<Ok500(PgA), Ok200(PgB)>>}
ScanFills == {0, 2} \cup ((MaxFill - 3)..MaxFill)
ScanRemotes == {Remote(h, n, e) : h \in ScanHeads, n \in ScanFills, e \in EndResponses}

\* remotes of the bot specification: 0, 3 and 25 listings named "a b"
BotRemotes ==
    {Remote(<<>>, 0, NetFail),
     Remote(<<Ok200(PgA)>>, 1, Ok200(<<>>)),
     Remote(<<Ok200(PgA), Ok500(PgBig)>>, 0, OkResponse(404, [message |-> "nf"]))}

\* remotes of the navigation specification: also 12 listings named "a b"
NavRemotes ==
    BotRemotes
        \cup {Remote(<<Ok200(PgA), Ok200(SubSeq(PgBig, 1, 10))>>, 0, Ok200(<<>>))}

\* context.args
ScanArgs == {<<<<"a">>, <<"B">>>>, <<<<"b">>>>, <<<<"a", "_", "b">>>>}
BotArgs == {<<>>, <<<<"A">>, <<"b">>>>, <<<<"c">>>>}

---------------------------------------------------------------------------
(* Page renderer and navigation tokens *)

\* faulty variant: the separator before the page index is missing
callback_data_NoSeparator(search_id, page_index) ==
    <<"a", "h", ":">> \o search_id \o IntStr(page_index)

\* f"ah:{search_id}:{page_index}"
callback_data(search_id, page_index) ==
    <<"a", "h", ":">> \o search_id \o <<":">> \o IntStr(page_index)

\* ListingLine of every listing a modelled remote serves, tabulated
ServedListings == {PgA[i] : i \in DOMAIN PgA} \cup {PgB[i] : i \in DOMAIN PgB} \cup {FillerListing}
LineOf == [item \in ServedListings |-> ListingLine(item)]

\* faulty variant: no previous control on the second page
build_ah_page_PrevLate(search_id, search_term, sorted_items, page_index) ==
    LET start_index == page_index * ITEMS_PER_PAGE
        end_index   == start_index + ITEMS_PER_PAGE
        page_items  == PySlice(sorted_items, start_index, end_index)
        prev == IF page_index > 1
                THEN <<[label |-> "Previous",
                        data  |-> callback_data(search_id, page_index - 1)]>>
                ELSE <<>>
        next == IF end_index < Len(sorted_items)
                THEN <<[label |-> "Next",
                        data  |-> callback_data(search_id, page_index + 1)]>>
                ELSE <<>>
    IN  [text    |-> [kind   |-> "page",
                      total  |-> Len(sorted_items),
                      term   |-> search_term,
                      pageNo |-> page_index + 1,
                      lines  |-> [i \in 1..Len(page_items) |-> LineOf[page_items[i]]]],
         buttons |-> prev \o next]

\* faulty variant: the next control is decided by the start of the page, not its end
build_ah_page_NextByStart(search_id, search_term, sorted_items, page_index) ==
    LET start_index == page_index * ITEMS_PER_PAGE
        end_index   == start_index + ITEMS_PER_PAGE
        page_items  == PySlice(sorted_items, start_index, end_index)
        prev == IF page_index > 0
                THEN <<[label |-> "Previous",
                        data  |-> callback_data(search_id, page_index - 1)]>>
                ELSE <<>>
        next == IF start_index < Len(sorted_items)
                THEN <<[label |-> "Next",
                        data  |-> callback_data(search_id, page_index + 1)]>>
                ELSE <<>>
    IN  [text    |-> [kind   |-> "page",
                      total  |-> Len(sorted_items),
                      term   |-> search_term,
                      pageNo |-> page_index + 1,
                      lines  |-> [i \in 1..Len(page_items) |-> LineOf[page_items[i]]]],
         buttons |-> prev \o next]

build_ah_page(search_id, search_term, sorted_items, page_index) ==
    LET start_index == page_index * ITEMS_PER_PAGE
        end_index   == start_index + ITEMS_PER_PAGE
        page_items  == PySlice(sorted_items, start_index, end_index)
        prev == IF page_index > 0
                THEN <<[label |-> "Previous",
                        data  |-> callback_data(search_id, page_index - 1)]>>
                ELSE <<>>
        next == IF end_index < Len(sorted_items)
                THEN <<[label |-> "Next",
                        data  |-> callback_data(search_id, page_index + 1)]>>
                ELSE <<>>
    IN  [text    |-> [kind   |-> "page",
                      total  |-> Len(sorted_items),
                      term   |-> search_term,
                      pageNo |-> page_index + 1,
                      lines  |-> [i \in 1..Len(page_items) |-> LineOf[page_items[i]]]],
         buttons |-> prev \o next]

ExpiredText == [kind |-> "expired"]

\* str(uuid.uuid4()): hexadecimal digits and dashes, never a colon; a value that
\* was not returned before
UuidStr(n) == <<"u">> \o NatStr(n)

---------------------------------------------------------------------------
(* State *)

Idle == [kind |-> "idle"]
NoOutput == [handler |-> "none"]

Init == /\ chat_data = [c \in Chats |-> <<>>]
        /\ msgs = <<>>
        /\ run = Idle
        /\ out = NoOutput
        /\ uuids = 0
        /\ commands = 0

\* updates are handled one at a time: a handler starts when none is in progress
NoHandlerRunning == run.kind \in {"idle", "done"}

---------------------------------------------------------------------------
(* ah_command *)

AhUsage(c, args) ==
    /\ NoHandlerRunning
    /\ args = <<>>
    /\ run' = Idle
    /\ out' = [handler |-> "ah", chat |-> c, replies |-> <<"usage">>]
    /\ commands' = commands + 1
    /\ UNCHANGED <<chat_data, msgs, uuids>>

AhStart(c, args, remote) ==
    /\ NoHandlerRunning
    /\ args # <<>>
    /\ run' = [kind |-> "ah", chat |-> c, search_term |-> SearchTerm(args),
               remote |-> remote, page |-> 1, matching_items |-> <<>>, fetched |-> <<>>]
    /\ out' = [handler |-> "ah", chat |-> c, replies |-> <<"searching">>]
    /\ commands' = commands + 1
    /\ UNCHANGED <<chat_data, msgs, uuids>>

\* one iteration of the while loop, shared by ah_command and price_command;
\* capped says whether the loop has the "if page > 100: break" exit
FetchAuctions(remote, page) ==
    LET data == make_api_request(Serve(remote, page))
    IN  IF data # None /\ Truthy(data[1]) THEN Get(data[1], "result", None) ELSE None

\* faulty variant: the cap is tested against the page just fetched, one page late
LoopIteration_CapLate(r, capped) ==
    LET auctions == FetchAuctions(r.remote, r.page)
        fetched  == Append(r.fetched, [page |-> r.page, items |-> Len(auctions)])
    IN  IF ~Truthy(auctions)
        THEN [r EXCEPT !.kind = r.kind \o "_end", !.fetched = fetched]
        ELSE [r EXCEPT
                !.matching_items = r.matching_items \o MatchesOf(auctions, r.search_term),
                !.page = r.page + 1,
                !.fetched = fetched,
                !.kind = IF capped /\ r.page > PAGE_CAP
                         THEN r.kind \o "_end" ELSE r.kind]

LoopIteration(r, capped) ==
    LET auctions == FetchAuctions(r.remote, r.page)
        fetched  == Append(r.fetched, [page |-> r.page, items |-> Len(auctions)])
    IN  IF ~Truthy(auctions)
        THEN [r EXCEPT !.kind = r.kind \o "_end", !.fetched = fetched]
        ELSE [r EXCEPT
                !.matching_items = r.matching_items \o MatchesOf(auctions, r.search_term),
                !.page = r.page + 1,
                !.fetched = fetched,
                !.kind = IF capped /\ r.page + 1 > PAGE_CAP
                         THEN r.kind \o "_end" ELSE r.kind]

AhFetch ==
    /\ run.kind = "ah"
    /\ run' = LoopIteration(run, TRUE)
    /\ UNCHANGED <<chat_data, msgs, out, uuids, commands>>

AhNotFound ==
    /\ run.kind = "ah_end"
    /\ run.matching_items = <<>>
    /\ run' = [run EXCEPT !.kind = "done"]
    /\ out' = [out EXCEPT !.replies = Append(out.replies, "not_found")]
    /\ UNCHANGED <<chat_data, msgs, uuids, commands>>

\* faulty variant: the same identifier for every search
NewSearchId_Fixed == UuidStr(1)

\* search_id = str(uuid.uuid4())
NewSearchId == UuidStr(uuids + 1)

AhReply ==
    /\ run.kind = "ah_end"
    /\ run.matching_items # <<>>
    /\ LET sorted_items == SortedByPrice(run.matching_items)
           search_id    == NewSearchId
           c            == run.chat
           page         == build_ah_page(search_id, run.search_term, sorted_items, 0)
       IN  /\ uuids' = uuids + 1
           /\ chat_data' = [chat_data EXCEPT ![c] =
                   (search_id :> [term |-> run.search_term, results |-> sorted_items])
                   @@ chat_data[c]]
           /\ msgs' = Append(msgs, [chat |-> c, text |-> page.text,
                                    buttons |-> page.buttons,
                                    search_id |-> search_id, page_index |-> 0,
                                    honest |-> TRUE])
           /\ run' = [run EXCEPT !.kind = "done"]
           /\ out' = [out EXCEPT !.replies = Append(out.replies, "page")]
    /\ UNCHANGED commands

---------------------------------------------------------------------------
(* price_command *)

PriceUsage(c, args) ==
    /\ NoHandlerRunning
    /\ args = <<>>
    /\ run' = Idle
    /\ out' = [handler |-> "price", chat |-> c, replies |-> <<"usage">>]
    /\ commands' = commands + 1
    /\ UNCHANGED <<chat_data, msgs, uuids>>

PriceStart(c, args, remote) ==
    /\ NoHandlerRunning
    /\ args # <<>>
    /\ run' = [kind |-> "price", chat |-> c, search_term |-> SearchTerm(args),
               remote |-> remote, page |-> 1, matching_items |-> <<>>, fetched |-> <<>>]
    /\ out' = [handler |-> "price", chat |-> c, replies |-> <<"searching">>]
    /\ commands' = commands + 1
    /\ UNCHANGED <<chat_data, msgs, uuids>>

PriceFetch ==
    /\ run.kind = "price"
    /\ run' = LoopIteration(run, FALSE)
    /\ UNCHANGED <<chat_data, msgs, out, uuids, commands>>

PriceNotFound ==
    /\ run.kind = "price_end"
    /\ run.matching_items = <<>>
    /\ run' = [run EXCEPT !.kind = "done"]
    /\ out' = [out EXCEPT !.replies = Append(out.replies, "not_found")]
    /\ UNCHANGED <<chat_data, msgs, uuids, commands>>

PriceReply ==
    /\ run.kind = "price_end"
    /\ run.matching_items # <<>>
    /\ LET lowest_auction == MinByPrice(run.matching_items)
       IN  /\ run' = [run EXCEPT !.kind = "done"]
           /\ out' = [handler |-> "price", chat |-> out.chat,
                      replies |-> Append(out.replies, "lowest"),
                      lowest_auction |-> lowest_auction,
                      lowest |-> ListingLine(lowest_auction)]
    /\ UNCHANGED <<chat_data, msgs, uuids, commands>>

---------------------------------------------------------------------------
(* button_handler *)

\* faulty variant: the cache is indexed without the test for a missing entry
Route_NoMissCheck(c, data) ==
    LET fields == Split(data, ":")
    IN  IF Len(fields) # 3 THEN [result |-> "ignored"]                \* except ValueError: return
        ELSE IF ~IsIntStr(fields[3]) THEN [result |-> "ValueError"]   \* int() outside the try
        ELSE IF fields[1] # <<"a", "h">> THEN [result |-> "no_command"]
        ELSE LET search_id  == fields[2]
                 page_index == ParseInt(fields[3])
             IN  IF search_id \notin DOMAIN chat_data[c]
                 THEN [result |-> "KeyError"]
                 ELSE LET cached_data == chat_data[c][search_id]
                      IN  [result |-> "page",
                           search_id |-> search_id,
                           page_index |-> page_index,
                           page |-> build_ah_page(search_id, cached_data.term,
                                                  cached_data.results, page_index)]

\* what button_handler does with callback data `data` that arrives in
\* conversation c, as a function of the cache: the outcome, and for a page the
\* rendered page
Route(c, data) ==
    LET fields == Split(data, ":")
    IN  IF Len(fields) # 3 THEN [result |-> "ignored"]                \* except ValueError: return
        ELSE IF ~IsIntStr(fields[3]) THEN [result |-> "ValueError"]   \* int() outside the try
        ELSE IF fields[1] # <<"a", "h">> THEN [result |-> "no_command"]
        ELSE LET search_id  == fields[2]
                 page_index == ParseInt(fields[3])
             IN  IF search_id \notin DOMAIN chat_data[c]
                 THEN [result |-> "expired"]
                 ELSE LET cached_data == chat_data[c][search_id]
                      IN  [result |-> "page",
                           search_id |-> search_id,
                           page_index |-> page_index,
                           page |-> build_ah_page(search_id, cached_data.term,
                                                  cached_data.results, page_index)]

\* the callback query of message m carrying `data`; honest says that the data
\* is that of a control shown on m
button_handler(m, data, honest) ==
    /\ NoHandlerRunning
    /\ LET c == msgs[m].chat
           r == Route(c, data)
       IN  /\ out' = [handler |-> "button", msg |-> m, data |-> data, result |-> r.result]
           /\ msgs' = CASE r.result = "expired" ->
                             [msgs EXCEPT ![m] = [@ EXCEPT !.text = ExpiredText,
                                                           !.buttons = <<>>,
                                                           !.honest = @ /\ honest]]
                        [] r.result = "page" ->
                             [msgs EXCEPT ![m] = [@ EXCEPT !.text = r.page.text,
                                                           !.buttons = r.page.buttons,
                                                           !.search_id = r.search_id,
                                                           !.page_index = r.page_index,
                                                           !.honest = @ /\ honest]]
                        [] OTHER -> [msgs EXCEPT ![m].honest = @ /\ honest]
    /\ run' = Idle
    /\ UNCHANGED <<chat_data, uuids, commands>>

\* a user presses a control that message m shows
PressButton(m, b) ==
    /\ b \in DOMAIN msgs[m].buttons
    /\ button_handler(m, msgs[m].buttons[b].data, TRUE)

\* callback data the bot did not put on the message: hand-made tokens (PagedTokens,
\* BadTokens), and the tokens of controls shown on other messages (ShownTokens)
ForgedPages == (-3)..MaxForgedPage
\* the first search_id issued, and one that was never issued
ForgedSids == {UuidStr(1), UuidStr(uuids + 1)}
PagedTokens == {callback_data(sid, p) : sid \in ForgedSids, p \in ForgedPages}
BadTokens ==
    {<<"a", "h", ":">> \o UuidStr(1),
     callback_data(UuidStr(1), 0) \o <<":", "0">>,
     <<"a", "h", ":">> \o UuidStr(1) \o <<":">>,
     <<"a", "h", ":">> \o UuidStr(1) \o <<":", "1", "x">>,
     <<"z", "z", ":">> \o UuidStr(1) \o <<":", "0">>}
ShownTokens ==
    UNION {{msgs[k].buttons[b].data : b \in DOMAIN msgs[k].buttons} : k \in DOMAIN msgs}

ForgedCallback(m, data) ==
    /\ \A b \in DOMAIN msgs[m].buttons : msgs[m].buttons[b].data # data
    /\ button_handler(m, data, FALSE)

---------------------------------------------------------------------------

Next ==
    \/ \E c \in Chats, args \in BotArgs : commands < MaxCommands /\ AhUsage(c, args)
    \/ \E c \in Chats, args \in BotArgs, remote \in BotRemotes :
          commands < MaxCommands /\ AhStart(c, args, remote)
    \/ AhFetch
    \/ AhNotFound
    \/ AhReply
    \/ \E c \in Chats, args \in BotArgs : commands < MaxCommands /\ PriceUsage(c, args)
    \/ \E c \in Chats, args \in BotArgs, remote \in BotRemotes :
          commands < MaxCommands /\ PriceStart(c, args, remote)
    \/ PriceFetch
    \/ PriceNotFound
    \/ PriceReply
    \/ \E m \in DOMAIN msgs, b \in 1..2 : PressButton(m, b)
    \/ \E m \in DOMAIN msgs, data \in ShownTokens : ForgedCallback(m, data)

\* the bot: commands in two conversations, presses of the controls shown, and
\* tokens of one message replayed on another message or conversation
Spec == Init /\ [][Next]_vars

\* one /ah search from the initial state, then presses and hand-made callbacks
NavNext ==
    \/ \E c \in Chats, args \in BotArgs, remote \in NavRemotes :
          commands = 0 /\ AhStart(c, args, remote)
    \/ AhFetch
    \/ AhNotFound
    \/ AhReply
    \/ \E m \in DOMAIN msgs, b \in 1..2 : PressButton(m, b)
    \/ \E m \in DOMAIN msgs, data \in PagedTokens \cup BadTokens : ForgedCallback(m, data)

NavSpec == Init /\ [][NavNext]_vars

\* one command from the initial state, over the richer remotes: the page loops of
\* ah_command and price_command
ScanNext ==
    \/ \E c \in Chats, args \in ScanArgs, remote \in ScanRemotes :
          commands = 0 /\ AhStart(c, args, remote)
    \/ AhFetch
    \/ AhNotFound
    \/ AhReply
    \/ \E c \in Chats, args \in ScanArgs, remote \in ScanRemotes :
          commands = 0 /\ PriceStart(c, args, remote)
    \/ PriceFetch
    \/ PriceNotFound
    \/ PriceReply

ScanSpec == Init /\ [][ScanNext]_vars

---------------------------------------------------------------------------
(* What a scan is expected to cover, stated from the remote alone *)

\* the first page whose fetch yields no items
FirstEmptyPage(remote) ==
    CHOOSE p \in 1..(Len(remote.head) + remote.fillN + 1) :
        /\ ~Truthy(FetchAuctions(remote, p))
        /\ \A q \in 1..(p - 1) : Truthy(FetchAuctions(remote, q))

RECURSIVE ListingsOfPages(_, _)
ListingsOfPages(remote, n) ==
    IF n = 0 THEN <<>>
    ELSE ListingsOfPages(remote, n - 1) \o FetchAuctions(remote, n)

PriceClasses(items) ==
    {IF HasPrice(items[i]) THEN <<items[i].price>> ELSE <<>> : i \in DOMAIN items}
InClass(x, cls) == IF cls = <<>> THEN ~HasPrice(x) ELSE HasPrice(x) /\ x.price = cls[1]

\* res holds the listings of src, ascending by price, unpriced ones last, and
\* equal-priced ones in the order they have in src
IsStablePriceOrderOf(res, src) ==
    /\ Len(res) = Len(src)
    /\ \A i \in 1..(Len(res) - 1) : ~KeyLess(res[i + 1], res[i])
    /\ \A cls \in PriceClasses(src) \cup PriceClasses(res) :
          SelectSeq(res, LAMBDA x : InClass(x, cls))
              = SelectSeq(src, LAMBDA x : InClass(x, cls))

AhDone == run.kind = "done" /\ out.handler = "ah"
PriceDone == run.kind = "done" /\ out.handler = "price"

\* the result of the finished /ah search: the cached sequence, or nothing
AhResult ==
    IF out.replies[Len(out.replies)] = "page"
    THEN chat_data[run.chat][UuidStr(uuids)].results
    ELSE <<>>

\* C1: a finished exhaustive search has produced exactly the listings of pages 1 up
\* to the first empty page, at most PAGE_CAP pages, whose normalized name contains
\* the search term, ascending by price, equal prices in remote order, unpriced last.
C1_ExhaustiveResult ==
    AhDone =>
        LET n == Min2(FirstEmptyPage(run.remote) - 1, PAGE_CAP)
        IN  IsStablePriceOrderOf(
                AhResult,
                MatchesOf(ListingsOfPages(run.remote, n), run.search_term))

\* a search that was cut at the page cap, with equal prices and an unpriced listing
C1_Witness ==
    /\ AhDone
    /\ FirstEmptyPage(run.remote) - 1 > PAGE_CAP
    /\ Len(AhResult) > PAGE_CAP
    /\ ~HasPrice(AhResult[Len(AhResult)])
    /\ AhResult[1].price = AhResult[2].price
    /\ AhResult[1] # AhResult[2]

\* C6: a finished minimum search reports the lowest-priced listing among the matches
\* of all pages up to the first empty one (no cap), the first such in remote order.
C6_MinimumResult ==
    PriceDone =>
        LET all == MatchesOf(ListingsOfPages(run.remote, FirstEmptyPage(run.remote) - 1),
                             run.search_term)
            last == out.replies[Len(out.replies)]
        IN  IF all = <<>> THEN last = "not_found"
            ELSE /\ last = "lowest"
                 /\ out.lowest = ListingLine(out.lowest_auction)
                 /\ \E i \in DOMAIN all :
                       /\ all[i] = out.lowest_auction
                       /\ \A j \in DOMAIN all : ~KeyLess(all[j], all[i])
                       /\ \A j \in 1..(i - 1) : KeyLess(all[i], all[j])

\* a minimum search that went past page PAGE_CAP and had to break a tie
C6_Witness ==
    /\ PriceDone
    /\ Len(run.fetched) > PAGE_CAP + 1
    /\ "lowest_auction" \in DOMAIN out
    /\ \E i, j \in DOMAIN run.matching_items :
          /\ i < j
          /\ run.matching_items[i] = out.lowest_auction
          /\ run.matching_items[j] # out.lowest_auction
          /\ HasPrice(run.matching_items[j])
          /\ run.matching_items[j].price = out.lowest_auction.price

\* C7 (state part): the fetches of one /ah search are for pages 1, 2, 3, ... in
\* order, each once; only the last fetch can have returned no items; there are at
\* most PAGE_CAP of them; the loop has ended exactly when a fetch returned nothing
\* or page PAGE_CAP was fetched.
C7_FetchLog ==
    (out.handler = "ah" /\ run.kind \in {"ah", "ah_end", "done"}) =>
        LET f == run.fetched
        IN  /\ Len(f) <= PAGE_CAP
            /\ \A i \in DOMAIN f : f[i].page = i
            /\ \A i \in 1..(Len(f) - 1) : f[i].items > 0
            /\ run.kind = "ah" =>
                   /\ run.page = Len(f) + 1
                   /\ Len(f) < PAGE_CAP
                   /\ \A i \in DOMAIN f : f[i].items > 0
            /\ run.kind # "ah" =>
                   /\ Len(f) >= 1
                   /\ f[Len(f)].items = 0 \/ Len(f) = PAGE_CAP

\* C7: the /ah loop fetches pages 1, 2, 3, ... one per iteration with no gap, repeat
\* or retry, stops at the first fetch without items or after page PAGE_CAP, and so
\* ends after at most PAGE_CAP fetches: every step of a running loop adds exactly
\* one fetch to a log that never exceeds PAGE_CAP entries.
C7_SequentialFetches ==
    /\ []C7_FetchLog
    /\ [][run.kind = "ah" =>
             /\ Len(run'.fetched) = Len(run.fetched) + 1
             /\ run'.kind \in {"ah", "ah_end"}]_vars

\* a search stopped by the cap, and none of its fetches was empty
C7_Witness ==
    /\ AhDone
    /\ Len(run.fetched) = PAGE_CAP
    /\ run.fetched[PAGE_CAP].items > 0

---------------------------------------------------------------------------
(* Navigation *)

Fields(data) == Split(data, ":")

\* a token with a wrong number of fields, or whose page field is no integer
Malformed(data) == Len(Fields(data)) # 3 \/ ~IsIntStr(Fields(data)[3])

\* "ah:<search_id>:<integer>"
WellFormedNav(data) == ~Malformed(data) /\ Fields(data)[1] = <<"a", "h">>

ButtonDone == out.handler = "button"

HasControl(buttons, label) == \E b \in DOMAIN buttons : buttons[b].label = label
ControlData(buttons, label) ==
    buttons[CHOOSE b \in DOMAIN buttons : buttons[b].label = label].data

ShowsPage(m) == msgs[m].text.kind = "page"
EntryOf(m) == chat_data[msgs[m].chat][msgs[m].search_id]

\* ceil(n / ITEMS_PER_PAGE)
PageCount(n) == (n + ITEMS_PER_PAGE - 1) \div ITEMS_PER_PAGE

\* C2 (as claimed): a callback whose token is malformed is ignored; the handler
\* does not end in an unhandled error.
C2_MalformedIgnored ==
    (ButtonDone /\ Malformed(out.data)) => out.result = "ignored"

\* C3: a page shown for page_index p >= 0 lists the cached listings
\* [p*10, p*10+10), has a previous control iff p > 0 and a next control iff
\* p*10+10 < total; for 25 listings the pages 0, 1, 2 have 10, 10, 5 lines and
\* next only, both, previous only.
C3_PageContents ==
    \A m \in DOMAIN msgs :
        (ShowsPage(m) /\ msgs[m].page_index >= 0) =>
            LET p     == msgs[m].page_index
                items == EntryOf(m).results
                total == Len(items)
                first == p * ITEMS_PER_PAGE
                count == Max2(0, Min2(total, first + ITEMS_PER_PAGE) - first)
                lines == msgs[m].text.lines
                prev  == HasControl(msgs[m].buttons, "Previous")
                next  == HasControl(msgs[m].buttons, "Next")
            IN  /\ msgs[m].text.total = total
                /\ Len(lines) = count
                /\ \A k \in 1..count : lines[k] = ListingLine(items[first + k])
                /\ prev <=> p > 0
                /\ next <=> first + ITEMS_PER_PAGE < total
                /\ Len(msgs[m].buttons) = (IF prev THEN 1 ELSE 0) + (IF next THEN 1 ELSE 0)
                /\ total = 25 =>
                      /\ p = 0 => Len(lines) = 10 /\ ~prev /\ next
                      /\ p = 1 => Len(lines) = 10 /\ prev /\ next
                      /\ p = 2 => Len(lines) = 5 /\ prev /\ ~next

\* the last page of a 25-listing result, reached with the bot's own controls
C3_Witness ==
    \E m \in DOMAIN msgs :
        /\ ShowsPage(m) /\ msgs[m].honest
        /\ msgs[m].text.total = 25 /\ msgs[m].page_index = 2
        /\ Len(msgs[m].text.lines) = 5

\* C4: a well-formed "ah" token whose search_id is not cached in the conversation
\* makes button_handler show the expired text (no controls, no page, no error), and
\* no run of button_handler changes the cache.
C4_CacheMissState ==
    (ButtonDone /\ WellFormedNav(out.data)
       /\ Fields(out.data)[2] \notin DOMAIN chat_data[msgs[out.msg].chat]) =>
        /\ out.result = "expired"
        /\ msgs[out.msg].text = ExpiredText
        /\ msgs[out.msg].buttons = <<>>
C4_CacheMiss ==
    /\ []C4_CacheMissState
    /\ [][out'.handler = "button" => chat_data' = chat_data]_vars

\* a token of one conversation, pressed in the other one
C4_Witness ==
    /\ ButtonDone /\ out.result = "expired"
    /\ msgs[out.msg].text = ExpiredText
    /\ \E c \in Chats : c # msgs[out.msg].chat /\ Fields(out.data)[2] \in DOMAIN chat_data[c]

OutOfRange(m) ==
    /\ ShowsPage(m)
    /\ \/ msgs[m].page_index < 0
       \/ msgs[m].page_index * ITEMS_PER_PAGE >= Len(EntryOf(m).results)

\* C5 (as claimed): an out-of-range page is empty and has neither control.
C5_OutOfRangeEmptyNoControls ==
    \A m \in DOMAIN msgs :
        OutOfRange(m) => msgs[m].text.lines = <<>> /\ msgs[m].buttons = <<>>

\* C5 (amended): past the last page the page is empty, the next control is
\* suppressed and the previous control is present; for a negative index the
\* previous control is suppressed, the next control is present, the page is empty
\* for index -1, and for an index p <= -2 the lines are those of the slice counted
\* from the end of the result, [total+10p, total+10p+10) clipped at 0.
C5_OutOfRangePage ==
    \A m \in DOMAIN msgs :
        OutOfRange(m) =>
            LET p     == msgs[m].page_index
                items == EntryOf(m).results
                total == Len(items)
                lines == msgs[m].text.lines
                prev  == HasControl(msgs[m].buttons, "Previous")
                next  == HasControl(msgs[m].buttons, "Next")
                lo    == Max2(total + p * ITEMS_PER_PAGE, 0)
                hi    == IF p = -1 THEN 0
                         ELSE Max2(total + p * ITEMS_PER_PAGE + ITEMS_PER_PAGE, 0)
            IN  IF p >= 0
                THEN /\ lines = <<>>
                     /\ prev /\ ~next
                     /\ ControlData(msgs[m].buttons, "Previous")
                            = callback_data(msgs[m].search_id, p - 1)
                ELSE /\ ~prev /\ next
                     /\ ControlData(msgs[m].buttons, "Next")
                            = callback_data(msgs[m].search_id, p + 1)
                     /\ Len(lines) = Max2(hi - lo, 0)
                     /\ \A k \in 1..(hi - lo) : lines[k] = ListingLine(items[lo + k])

\* a hand-made token for page -2 of a 25-listing result: ten listings are shown,
\* with a next control and no previous control
C5_Witness ==
    \E m \in DOMAIN msgs :
        /\ OutOfRange(m) /\ msgs[m].page_index = -2
        /\ Len(msgs[m].text.lines) = ITEMS_PER_PAGE
        /\ HasControl(msgs[m].buttons, "Next")
        /\ ~HasControl(msgs[m].buttons, "Previous")

\* C8 (state part): every cached result sequence is non-empty
C8_EntriesNonEmpty ==
    \A c \in Chats : \A sid \in DOMAIN chat_data[c] : chat_data[c][sid].results # <<>>

\* C8 (step part): a step keeps every existing entry as it is; the cache changes
\* only when a search ends with at least one match; button_handler leaves the whole
\* cache unchanged
C8_EntriesKept ==
    /\ \A c \in Chats : \A sid \in DOMAIN chat_data[c] :
          sid \in DOMAIN chat_data'[c] /\ chat_data'[c][sid] = chat_data[c][sid]
    /\ chat_data' # chat_data =>
          run.kind = "ah_end" /\ run.matching_items # <<>> /\ run'.kind = "done"
    /\ out'.handler = "button" => chat_data' = chat_data

\* C8: the result cache is write-once.
C8_WriteOnce == []C8_EntriesNonEmpty /\ [][C8_EntriesKept]_vars

\* two entries in one conversation, and a page navigation after both were stored
C8_Witness ==
    /\ ButtonDone /\ out.result = "page"
    /\ \E c \in Chats : Cardinality(DOMAIN chat_data[c]) = 2

\* the lines of the pages met from page p of a cached result by following the
\* next control, as button_handler resolves its token in conversation c
RECURSIVE LinesFollowingNext(_, _, _, _)
LinesFollowingNext(c, sid, p, fuel) ==
    LET e    == chat_data[c][sid]
        page == build_ah_page(sid, e.term, e.results, p)
    IN  IF ~HasControl(page.buttons, "Next") \/ fuel = 0 THEN page.text.lines
        ELSE LET r == Route(c, ControlData(page.buttons, "Next"))
             IN  IF r.result # "page" \/ r.search_id # sid THEN page.text.lines
                 ELSE page.text.lines \o LinesFollowingNext(c, sid, r.page_index, fuel - 1)

\* C9: a message on which only controls it showed were pressed shows a page with
\* index in [0, ceil(total/10) - 1] and at least one listing, and the pages met
\* from page 0 along the next controls show every cached listing exactly once.
C9_HonestNavigation ==
    /\ \A m \in DOMAIN msgs :
          msgs[m].honest =>
              /\ ShowsPage(m)
              /\ msgs[m].page_index \in 0..(PageCount(Len(EntryOf(m).results)) - 1)
              /\ msgs[m].text.lines # <<>>
    /\ \A c \in Chats : \A sid \in DOMAIN chat_data[c] :
          LET items == chat_data[c][sid].results
          IN  LinesFollowingNext(c, sid, 0, Len(items))
                  = [i \in 1..Len(items) |-> ListingLine(items[i])]

\* the last of three pages, reached by pressing the message's own controls
C9_Witness ==
    /\ ButtonDone /\ out.result = "page"
    /\ msgs[out.msg].honest
    /\ msgs[out.msg].page_index = PageCount(Len(EntryOf(out.msg).results)) - 1
    /\ msgs[out.msg].page_index = 2

\* C10: every control on a message carries a token that parses back to the
\* search_id and target page it was built from; that search_id is cached in the
\* message's conversation, so the token resolves to a page there and to the
\* expired text in every other conversation; no press of a message's own control
\* has ended in the expired text.
C10_TokensResolve ==
    /\ \A m \in DOMAIN msgs : \A b \in DOMAIN msgs[m].buttons :
          LET data   == msgs[m].buttons[b].data
              c      == msgs[m].chat
              target == IF msgs[m].buttons[b].label = "Previous"
                        THEN msgs[m].page_index - 1 ELSE msgs[m].page_index + 1
          IN  /\ WellFormedNav(data)
              /\ Fields(data)[2] = msgs[m].search_id
              /\ ParseInt(Fields(data)[3]) = target
              /\ msgs[m].search_id \in DOMAIN chat_data[c]
              /\ Route(c, data).result = "page"
              /\ Route(c, data).search_id = msgs[m].search_id
              /\ Route(c, data).page_index = target
              /\ \A c2 \in Chats \ {c} : Route(c2, data).result = "expired"
    /\ \A m \in DOMAIN msgs : msgs[m].honest => msgs[m].text # ExpiredText
    /\ (ButtonDone /\ out.result = "expired") => ~msgs[out.msg].honest

\* paged messages with controls in both conversations, after a press of a
\* message's own control
C10_Witness ==
    /\ ButtonDone /\ out.result = "page" /\ msgs[out.msg].honest
    /\ \E m1, m2 \in DOMAIN msgs :
          /\ msgs[m1].chat # msgs[m2].chat
          /\ msgs[m1].buttons # <<>> /\ msgs[m2].buttons # <<>>

====
